---- MODULE Spec2Model ----
(***************************************************************************)
(* Debian Control Center (app.py): the launcher's dispatch logic.          *)
(*                                                                         *)
(* The program keeps no state of its own between two button presses; what *)
(* it does is observable only as calls across its boundary: PATH look-ups  *)
(* (shutil.which), process creations (subprocess.Popen), dialogs           *)
(* (QMessageBox.question / warning, QFileDialog) and console output.  The  *)
(* model records, for the handler that ran last, the ordered list of those *)
(* calls (last.events), and keeps running totals of the confirmed APT      *)
(* actions and of the terminals created.                                   *)
(***************************************************************************)
EXTENDS Integers, Sequences, FiniteSets, TLC

VARIABLES
    installed,   \* host: the binaries shutil.which / execvp can resolve
    environ,     \* os.environ restricted to DISPLAY and XAUTHORITY
    running,     \* the Qt event loop is alive
    clicks,      \* button presses dispatched so far
    confirmed,   \* APT confirmations answered Yes so far
    launched,    \* terminal processes created so far
    last         \* the handler that ran last: [op, events, escaped]

vars == <<installed, environ, running, clicks, confirmed, launched, last>>

----------------------------------------------------------------------------
(* Bounds of the model *)

\* button presses explored in one run of the launcher
MaxClicks == 2

\* hosts with any mix of tools: at most this many of the binaries installed
MaxInstalled == 1

----------------------------------------------------------------------------
(* Program constants *)

PYQT_VERSION == 6

Unset == "<unset>"

\* the first element of every (binary, launch) pair of `terminals`
TerminalBinaries ==
    {"konsole", "konsole6", "qterminal", "tilix", "xfce4-terminal", "kgx", "xterm"}

\* the tools the lambdas of MainWindow.__init__ create directly
DirectTools ==
    {"gdebi-gtk", "dconf-editor", "lxqt-admin-user", "nm-connection-editor",
     "system-config-printer", "firetools", "grub-customizer",
     "com.github.tchx84.Flatseal"}

\* the command strings handed to run_polkit_command
PolkitCommands ==
    {"synaptic", "gkdebconf", "gparted", "timeshift-launcher",
     "/usr/sbin/tuned-gui", "gufw", "kate /etc/default/grub"}

\* every binary the program looks up or executes by name
Binaries ==
    TerminalBinaries \cup DirectTools \cup
    {"pkexec", "flatpak", "hardinfo2", "hardinfo", "deb-gview"}

\* values the two environment variables take in the model
DisplayValues == {Unset, ":0", ":1"}
XauthorityValues == {Unset, "/run/user/1000/xauth"}

\* what the user does with the modal yes/no dialog
Gestures == {"Yes", "No", "Dismiss"}

----------------------------------------------------------------------------
(* The calls the program makes across its boundary *)

WhichEv(binary, found) == [ev |-> "which", arg |-> <<binary>>, ok |-> found]
PopenEv(argv, created) == [ev |-> "popen", arg |-> argv, ok |-> created]
WarningEv(title, text) == [ev |-> "warning", arg |-> <<title, text>>, ok |-> TRUE]
QuestionEv(text, gesture, answer) ==
    [ev |-> "question", arg |-> <<text, gesture>>, ok |-> answer]
LogEv(text) == [ev |-> "print", arg |-> <<text>>, ok |-> TRUE]
FileDialogEv(path) == [ev |-> "getOpenFileName", arg |-> <<path>>, ok |-> path /= ""]

\* shutil.which(binary): truthy iff the binary resolves on the search path
which(binary) == binary \in installed

\* subprocess.Popen(argv) returns iff the executable argv[0] resolves and the
\* operating system does not refuse the creation; it raises otherwise
Popen(argv, refused) == argv[1] \in installed /\ argv[1] \notin refused

----------------------------------------------------------------------------
(* ask_question *)

\* QMessageBox.question with the Yes and No buttons: closing the dialog gives
\* its escape button, No
QMessageBox_question(gesture) == IF gesture = "Yes" THEN "Yes" ELSE "No"

\* variant: only an explicit No declines
ask_question_only_no_declines(gesture) == QMessageBox_question(gesture) = "Yes" \/ gesture /= "No"

ask_question(gesture) ==
    IF PYQT_VERSION = 6
    THEN QMessageBox_question(gesture) = "Yes"
    ELSE QMessageBox_question(gesture) = "Yes"

----------------------------------------------------------------------------
(* run_terminal_command *)

\* variant: xterm moved to the head of the list
terminals_xterm_first(title) ==
    << <<"xterm", <<"xterm", "-T", title, "-e">> >>,
       <<"konsole", <<"konsole", "-e">> >>,
       <<"konsole6", <<"konsole6", "-e">> >>,
       <<"qterminal", <<"qterminal", "-e">> >>,
       <<"tilix", <<"tilix", "-e">> >>,
       <<"xfce4-terminal", <<"xfce4-terminal", "-e">> >>,
       <<"kgx", <<"kgx", "--">> >> >>

terminals(title) ==
    << <<"konsole", <<"konsole", "-e">> >>,
       <<"konsole6", <<"konsole6", "-e">> >>,
       <<"qterminal", <<"qterminal", "-e">> >>,
       <<"tilix", <<"tilix", "-e">> >>,
       <<"xfce4-terminal", <<"xfce4-terminal", "-e">> >>,
       <<"kgx", <<"kgx", "--">> >>,
       <<"xterm", <<"xterm", "-T", title, "-e">> >> >>

\* the f-string of the login shell run inside the terminal
shell_line(cmd) ==
    "bash -lc \"sudo " \o cmd
      \o "; echo; echo '[Comando APT finalizado!]'; read -p 'Pressione ENTER para fechar...' _\""

full_cmd(launch, cmd) == launch \o <<shell_line(cmd)>>

\* variant: the message goes to the console instead of a dialog
NoTerminalLogged ==
    LogEv("Nenhum terminal compatível encontrado.")

NoTerminalWarning ==
    WarningEv("Erro",
              "Nenhum terminal compatível encontrado.\nInstale: konsole, xterm, tilix, qterminal, kgx ou xfce4-terminal.")

\* variant: the except clause leaves the loop
RECURSIVE terminal_loop_break_on_error(_, _, _, _)
terminal_loop_break_on_error(i, title, cmd, refused) ==
    IF i > Len(terminals(title))
    THEN <<NoTerminalWarning>>
    ELSE LET binary == terminals(title)[i][1]
             launch == terminals(title)[i][2]
         IN  IF which(binary)
             THEN IF Popen(full_cmd(launch, cmd), refused)
                  THEN <<WhichEv(binary, TRUE), PopenEv(full_cmd(launch, cmd), TRUE)>>
                  ELSE <<WhichEv(binary, TRUE), PopenEv(full_cmd(launch, cmd), FALSE),
                         LogEv("Erro ao tentar terminal " \o binary \o ":"),
                         NoTerminalWarning>>
             ELSE <<WhichEv(binary, FALSE)>>
                  \o terminal_loop_break_on_error(i + 1, title, cmd, refused)

\* variant: no return after a terminal was created
RECURSIVE terminal_loop_no_return(_, _, _, _)
terminal_loop_no_return(i, title, cmd, refused) ==
    IF i > Len(terminals(title))
    THEN <<NoTerminalWarning>>
    ELSE LET binary == terminals(title)[i][1]
             launch == terminals(title)[i][2]
         IN  IF which(binary)
             THEN IF Popen(full_cmd(launch, cmd), refused)
                  THEN <<WhichEv(binary, TRUE), PopenEv(full_cmd(launch, cmd), TRUE)>>
                       \o terminal_loop_no_return(i + 1, title, cmd, refused)
                  ELSE <<WhichEv(binary, TRUE), PopenEv(full_cmd(launch, cmd), FALSE),
                         LogEv("Erro ao tentar terminal " \o binary \o ":")>>
                       \o terminal_loop_no_return(i + 1, title, cmd, refused)
             ELSE <<WhichEv(binary, FALSE)>>
                  \o terminal_loop_no_return(i + 1, title, cmd, refused)

\* the for loop from its i-th pair on, and the warning that follows the loop
RECURSIVE terminal_loop(_, _, _, _)
terminal_loop(i, title, cmd, refused) ==
    IF i > Len(terminals(title))
    THEN <<NoTerminalWarning>>
    ELSE LET binary == terminals(title)[i][1]
             launch == terminals(title)[i][2]
         IN  IF which(binary)
             THEN IF Popen(full_cmd(launch, cmd), refused)
                  THEN <<WhichEv(binary, TRUE), PopenEv(full_cmd(launch, cmd), TRUE)>>
                  ELSE <<WhichEv(binary, TRUE), PopenEv(full_cmd(launch, cmd), FALSE),
                         LogEv("Erro ao tentar terminal " \o binary \o ":")>>
                       \o terminal_loop(i + 1, title, cmd, refused)
             ELSE <<WhichEv(binary, FALSE)>> \o terminal_loop(i + 1, title, cmd, refused)

\* variant: the loop is left with break, so the warning follows a created
\* terminal too
run_terminal_command_break(title, cmd, refused) ==
    LET events == terminal_loop(1, title, cmd, refused)
    IN  IF events[Len(events)].ev = "warning"
        THEN events
        ELSE events \o <<NoTerminalWarning>>

run_terminal_command(title, cmd, refused) == terminal_loop(1, title, cmd, refused)

----------------------------------------------------------------------------
(* run_polkit_command *)

\* shutil.os.environ.get(key, default)
environ_get(key, default) == IF environ[key] = Unset THEN default ELSE environ[key]

\* variant: an unset variable is left out of the argument vector
polkit_argv_omits_unset(cmd) ==
    <<"pkexec", "env">>
      \o (IF environ["DISPLAY"] = Unset THEN <<>>
          ELSE <<"DISPLAY=" \o environ["DISPLAY"]>>)
      \o (IF environ["XAUTHORITY"] = Unset THEN <<>>
          ELSE <<"XAUTHORITY=" \o environ["XAUTHORITY"]>>)
      \o <<"bash", "-lc", cmd>>

polkit_argv(cmd) ==
    <<"pkexec", "env",
      "DISPLAY=" \o environ_get("DISPLAY", ""),
      "XAUTHORITY=" \o environ_get("XAUTHORITY", ""),
      "bash", "-lc", cmd>>

\* variant: the failure is reported in a dialog, as the Flatpak slots do
run_polkit_command_warns(cmd, refused) ==
    IF Popen(polkit_argv(cmd), refused)
    THEN <<PopenEv(polkit_argv(cmd), TRUE)>>
    ELSE <<PopenEv(polkit_argv(cmd), FALSE),
           WarningEv("Erro", "Error executing pkexec:")>>

run_polkit_command(cmd, refused) ==
    IF Popen(polkit_argv(cmd), refused)
    THEN <<PopenEv(polkit_argv(cmd), TRUE)>>
    ELSE <<PopenEv(polkit_argv(cmd), FALSE), LogEv("Error executing pkexec:")>>

----------------------------------------------------------------------------
(* Reading a handler's list of calls *)

Created(events) ==
    {i \in 1..Len(events) : events[i].ev = "popen" /\ events[i].ok}
Attempted(events) ==
    {i \in 1..Len(events) : events[i].ev = "popen"}
Probed(events) ==
    {i \in 1..Len(events) : events[i].ev = "which"}
Warnings(events) ==
    {i \in 1..Len(events) : events[i].ev = "warning"}
Questions(events) ==
    {i \in 1..Len(events) : events[i].ev = "question"}

TerminalsCreated(events) ==
    {i \in Created(events) : events[i].arg[1] \in TerminalBinaries}

----------------------------------------------------------------------------
(* The slots of MainWindow *)

\* a slot ran to its end: Qt goes back to its event loop
Returned(op, events) ==
    /\ last' = [op |-> op, events |-> events, escaped |-> FALSE]
    /\ running' = TRUE

\* an exception left the slot: PyQt6 (and PyQt5 from 5.5 on) hands an
\* exception no slot caught to qFatal(), which aborts the process
Escaped(op, events) ==
    /\ last' = [op |-> op, events |-> events, escaped |-> TRUE]
    /\ running' = FALSE

Dispatch ==
    /\ running
    /\ clicks < MaxClicks
    /\ clicks' = clicks + 1

\* the body shared by the four confirm_* slots
confirm(op, text, title, cmd) ==
    /\ Dispatch
    /\ \E gesture \in Gestures :
         IF ask_question(gesture)
         THEN \E refused \in SUBSET (installed \cap TerminalBinaries) :
                LET events == run_terminal_command(title, cmd, refused)
                IN  /\ Returned(op, <<QuestionEv(text, gesture, TRUE)>> \o events)
                    /\ confirmed' = confirmed + 1
                    /\ launched' = launched + Cardinality(TerminalsCreated(events))
         ELSE /\ Returned(op, <<QuestionEv(text, gesture, FALSE)>>)
              /\ UNCHANGED <<confirmed, launched>>
    /\ UNCHANGED <<installed, environ>>

confirm_autoclean ==
    confirm("confirm_autoclean",
            "Isto removerá TODOS os pacotes do cache.\nDeseja continuar?",
            "apt clean", "apt clean")

confirm_autoremove ==
    confirm("confirm_autoremove",
            "Isto removerá somente os pacotes órfãos.\nDeseja continuar?",
            "apt autoremove --purge -y", "apt autoremove --purge -y")

confirm_fixbroken ==
    confirm("confirm_fixbroken",
            "Esta ação corrigirá as dependências quebradas.\nDeseja continuar?",
            "apt fix-broken", "apt --fix-broken install -y")

confirm_upgrade ==
    confirm("confirm_upgrade",
            "Atualizar todos os pacotes?",
            "apt update && sudo apt full-upgrade -y",
            "apt update && sudo apt full-upgrade -y")

ConfirmOps ==
    {"confirm_autoclean", "confirm_autoremove", "confirm_fixbroken", "confirm_upgrade"}

----------------------------------------------------------------------------
(* The other slots *)

\* btn_synaptic, btn_gkdebconf, btn_gparted, btn_timeshift, btn_tuned_gtk,
\* btn_gufw, btn_kate: lambda: run_polkit_command(cmd)
polkit_button(cmd) ==
    /\ Dispatch
    /\ \E refused \in SUBSET ({"pkexec"} \cap installed) :
         Returned("run_polkit_command", run_polkit_command(cmd, refused))
    /\ UNCHANGED <<installed, environ, confirmed, launched>>

\* btn_gdebi, btn_editorconf, btn_users, btn_network, btn_open_printer,
\* btn_firetools, btn_grub_customizer, btn_flatseal:
\* lambda: subprocess.Popen([tool]), with no handler around the call
direct_button(tool) ==
    /\ Dispatch
    /\ \E refused \in SUBSET ({tool} \cap installed) :
         IF Popen(<<tool>>, refused)
         THEN Returned("lambda", <<PopenEv(<<tool>>, TRUE)>>)
         ELSE Escaped("lambda", <<PopenEv(<<tool>>, FALSE)>>)
    /\ UNCHANGED <<installed, environ, confirmed, launched>>

open_hardinfo ==
    /\ Dispatch
    /\ \E refused \in SUBSET ({"hardinfo2", "hardinfo"} \cap installed) :
         IF which("hardinfo2")
         THEN IF Popen(<<"hardinfo2">>, refused)
              THEN Returned("open_hardinfo",
                            <<WhichEv("hardinfo2", TRUE), PopenEv(<<"hardinfo2">>, TRUE)>>)
              ELSE Escaped("open_hardinfo",
                           <<WhichEv("hardinfo2", TRUE), PopenEv(<<"hardinfo2">>, FALSE)>>)
         ELSE IF which("hardinfo")
              THEN IF Popen(<<"hardinfo">>, refused)
                   THEN Returned("open_hardinfo",
                                 <<WhichEv("hardinfo2", FALSE), WhichEv("hardinfo", TRUE),
                                   PopenEv(<<"hardinfo">>, TRUE)>>)
                   ELSE Escaped("open_hardinfo",
                                <<WhichEv("hardinfo2", FALSE), WhichEv("hardinfo", TRUE),
                                  PopenEv(<<"hardinfo">>, FALSE)>>)
              ELSE Returned("open_hardinfo",
                            <<WhichEv("hardinfo2", FALSE), WhichEv("hardinfo", FALSE),
                              WarningEv("Erro", "Hardinfo não instalado.")>>)
    /\ UNCHANGED <<installed, environ, confirmed, launched>>

\* what QFileDialog.getOpenFileName gives back: "" when cancelled
PickedPaths == {"", "/var/cache/apt/archives/a.deb"}

open_deb_dialog ==
    /\ Dispatch
    /\ \E path \in PickedPaths, refused \in SUBSET ({"deb-gview"} \cap installed) :
         IF path /= ""
         THEN IF which("deb-gview")
              THEN IF Popen(<<"deb-gview", path>>, refused)
                   THEN Returned("open_deb_dialog",
                                 <<FileDialogEv(path), WhichEv("deb-gview", TRUE),
                                   PopenEv(<<"deb-gview", path>>, TRUE)>>)
                   ELSE Escaped("open_deb_dialog",
                                <<FileDialogEv(path), WhichEv("deb-gview", TRUE),
                                  PopenEv(<<"deb-gview", path>>, FALSE)>>)
              ELSE Returned("open_deb_dialog",
                            <<FileDialogEv(path), WhichEv("deb-gview", FALSE),
                              WarningEv("Erro", "deb-gview não instalado.")>>)
         ELSE Returned("open_deb_dialog", <<FileDialogEv(path)>>)
    /\ UNCHANGED <<installed, environ, confirmed, launched>>

flatpak_cmd(command, app) ==
    <<"flatpak", "run", "--branch=stable", "--arch=x86_64", "--command=" \o command, app>>

\* the body shared by open_sysd_manager, open_resources, open_warehouse and
\* open_flatsweep (open_linux_assistant has the same body, and no button is
\* connected to it)
open_flatpak(op, command, app, name) ==
    /\ Dispatch
    /\ \E refused \in SUBSET ({"flatpak"} \cap installed) :
         IF ~which("flatpak")
         THEN Returned(op, <<WhichEv("flatpak", FALSE),
                             WarningEv("Erro", "Flatpak não instalado.")>>)
         ELSE IF Popen(flatpak_cmd(command, app), refused)
              THEN Returned(op, <<WhichEv("flatpak", TRUE),
                                  PopenEv(flatpak_cmd(command, app), TRUE)>>)
              ELSE Returned(op, <<WhichEv("flatpak", TRUE),
                                  PopenEv(flatpak_cmd(command, app), FALSE),
                                  WarningEv("Erro", "Não foi possível executar o "
                                                      \o name \o ":\n<e>")>>)
    /\ UNCHANGED <<installed, environ, confirmed, launched>>

open_sysd_manager ==
    open_flatpak("open_sysd_manager", "sysd-manager",
                 "io.github.plrigaux.sysd-manager", "sysd-manager")

open_resources ==
    open_flatpak("open_resources", "resources", "net.nokyan.Resources", "Resources")

open_warehouse ==
    open_flatpak("open_warehouse", "warehouse", "io.github.flattool.Warehouse", "Warehouse")

open_flatsweep ==
    open_flatpak("open_flatsweep", "flatsweep",
                 "io.github.giantpinkrobots.flatsweep", "Flatsweep")

\* the caller's environment differs from one dispatch to the next
EnvChange ==
    /\ running
    /\ \E d \in DisplayValues, x \in XauthorityValues :
         /\ environ' = [DISPLAY |-> d, XAUTHORITY |-> x]
         /\ environ' /= environ
    /\ UNCHANGED <<installed, running, clicks, confirmed, launched, last>>

----------------------------------------------------------------------------
(* The privilege-escalation buttons alone, on every environment *)

NoCall == [op |-> "none", events |-> <<>>, escaped |-> FALSE]

InitPolkit ==
    /\ installed \in SUBSET {"pkexec"}
    /\ environ \in [DISPLAY : DisplayValues, XAUTHORITY : XauthorityValues]
    /\ running = TRUE
    /\ clicks = 0
    /\ confirmed = 0
    /\ launched = 0
    /\ last = NoCall

NextPolkit ==
    \/ \E cmd \in PolkitCommands : polkit_button(cmd)
    \/ EnvChange

SpecPolkit == InitPolkit /\ [][NextPolkit]_vars

----------------------------------------------------------------------------
(* The whole launcher: every button of MainWindow *)

RECURSIVE SetsUpTo(_)
SetsUpTo(k) ==
    IF k = 0 THEN {{}}
    ELSE SetsUpTo(k - 1) \cup {s \cup {b} : s \in SetsUpTo(k - 1), b \in Binaries}

\* the hosts explored: every set of installed terminals, and every host with
\* at most MaxInstalled of the binaries (a slot reads only its own binaries)
Hosts == (SUBSET TerminalBinaries) \cup SetsUpTo(MaxInstalled)

Init ==
    /\ installed \in Hosts
    /\ environ = [DISPLAY |-> ":0", XAUTHORITY |-> Unset]
    /\ running = TRUE
    /\ clicks = 0
    /\ confirmed = 0
    /\ launched = 0
    /\ last = NoCall

Next ==
    \/ confirm_autoclean
    \/ confirm_autoremove
    \/ confirm_fixbroken
    \/ confirm_upgrade
    \/ \E cmd \in PolkitCommands : polkit_button(cmd)
    \/ \E tool \in DirectTools : direct_button(tool)
    \/ open_hardinfo
    \/ open_deb_dialog
    \/ open_sysd_manager
    \/ open_resources
    \/ open_warehouse
    \/ open_flatsweep

Spec == Init /\ [][Next]_vars

----------------------------------------------------------------------------
(* Vocabulary of the properties *)

\* the declared preference order of the terminal candidates
CandidateOrder ==
    <<"konsole", "konsole6", "qterminal", "tilix", "xfce4-terminal", "kgx", "xterm">>

Rank(binary) == CHOOSE k \in 1..Len(CandidateOrder) : CandidateOrder[k] = binary

InstalledRanks == {k \in 1..Len(CandidateOrder) : CandidateOrder[k] \in installed}

FirstInstalled == CHOOSE k \in InstalledRanks : \A j \in InstalledRanks : k <= j

Events == last.events

\* the last slot was a confirm_* slot
AptAction == last.op \in ConfirmOps

\* ... and its dialog was answered Yes, so run_terminal_command was called
RanTerminalRunner == AptAction /\ Events[1].ev = "question" /\ Events[1].ok

RanPolkit == last.op = "run_polkit_command"

FailedAttempts(events) == {p \in Attempted(events) : ~events[p].ok}

----------------------------------------------------------------------------
(* C1 *)

\* C1: in each of the four confirm_* slots the terminal runner runs only
\* after the dialog returned Yes: on No, or when the dialog is dismissed,
\* the slot makes no call but the dialog itself (no look-up, no process, no
\* warning), whatever terminals are installed.
C1_OnlyAfterYes ==
    AptAction =>
        /\ Len(Events) >= 1
        /\ Events[1].ev = "question"
        /\ Questions(Events) = {1}
        /\ Events[1].ok <=> Events[1].arg[2] = "Yes"
        /\ Len(Events) > 1 => Events[1].arg[2] = "Yes"
        /\ Events[1].arg[2] /= "Yes" =>
             /\ Created(Events) = {}
             /\ Attempted(Events) = {}
             /\ Warnings(Events) = {}

\* the upgrade dialog is dismissed on a host where every terminal is installed
C1_Witness ==
    /\ last.op = "confirm_upgrade"
    /\ Events[1].arg[2] = "Dismiss"
    /\ installed = TerminalBinaries
    /\ Len(Events) = 1

----------------------------------------------------------------------------
(* C2 *)

\* C2 as stated: whenever some candidate is installed, the runner creates the
\* first installed candidate of the declared order, creates or attempts no
\* other one, and probes no candidate after it.
C2_FirstInstalledOnly ==
    (RanTerminalRunner /\ InstalledRanks /= {}) =>
        /\ \E i \in Created(Events) : Events[i].arg[1] = CandidateOrder[FirstInstalled]
        /\ \A i \in Attempted(Events) : Events[i].arg[1] = CandidateOrder[FirstInstalled]
        /\ \A p \in Probed(Events) : Rank(Events[p].arg[1]) <= FirstInstalled

\* C2, amended: the runner creates at most one terminal; the one it creates
\* is installed, every installed candidate declared before it was attempted
\* and failed to start, and no candidate declared after it is probed; when no
\* attempt fails, the terminal created is the first installed candidate, and
\* none is created only when every installed candidate failed to start.
C2_FirstInstalledThatStarts ==
    RanTerminalRunner =>
        /\ Cardinality(Created(Events)) <= 1
        /\ \A i \in Created(Events) :
             /\ Events[i].arg[1] \in TerminalBinaries
             /\ Events[i].arg[1] \in installed
             /\ \A j \in InstalledRanks :
                  j < Rank(Events[i].arg[1]) =>
                    \E p \in FailedAttempts(Events) :
                        p < i /\ Events[p].arg[1] = CandidateOrder[j]
             /\ \A p \in Probed(Events) :
                  Rank(Events[p].arg[1]) <= Rank(Events[i].arg[1])
        /\ (FailedAttempts(Events) = {} /\ InstalledRanks /= {}) =>
             \E i \in Created(Events) :
                 Events[i].arg[1] = CandidateOrder[FirstInstalled]
        /\ Created(Events) = {} =>
             \A j \in InstalledRanks : \E p \in FailedAttempts(Events) :
                 Events[p].arg[1] = CandidateOrder[j]

\* candidates = [not installed, installed, installed]: the second is created
\* and the third is never probed
C2_Witness ==
    /\ RanTerminalRunner
    /\ "konsole" \notin installed
    /\ {"konsole6", "qterminal"} \subseteq installed
    /\ \E i \in Created(Events) : Events[i].arg[1] = "konsole6"
    /\ \A p \in Probed(Events) : Events[p].arg[1] \in {"konsole", "konsole6"}

----------------------------------------------------------------------------
(* C3 *)

\* C3: a call of the runner on a host with no terminal candidate shows the
\* warning exactly once, as its last call, and creates no process (the count
\* of terminals created stays as it was); a second such call right after the
\* first makes the same calls with the same results.
C3_NoTerminalIsNoOp ==
    [][ (RanTerminalRunner /\ InstalledRanks = {})' =>
            /\ Cardinality(Warnings(Events))' = 1
            /\ (Events[Len(Events)].ev = "warning")'
            /\ (Created(Events) = {})'
            /\ launched' = launched
            /\ (RanTerminalRunner => Tail(Events)' = Tail(Events)) ]_vars

\* two confirmed APT actions, one after the other, on a host with no terminal
C3_Witness ==
    /\ RanTerminalRunner
    /\ InstalledRanks = {}
    /\ confirmed >= 2
    /\ clicks = confirmed
    /\ Cardinality(Warnings(Events)) = 1
    /\ launched = 0

----------------------------------------------------------------------------
(* C4 *)

\* C4: every failed attempt to start a terminal is logged and followed by the
\* look-up of the next candidate of the declared order (by the warning after
\* the last one); no candidate is attempted twice in a call; the terminal
\* created ends the call, and every candidate declared before it was found
\* missing or failed to start.
C4_FallbackInOrder ==
    RanTerminalRunner =>
        /\ \A p \in FailedAttempts(Events) :
             /\ Events[p].arg[1] \in TerminalBinaries
             /\ p + 2 <= Len(Events)
             /\ Events[p + 1].ev = "print"
             /\ IF Rank(Events[p].arg[1]) < Len(CandidateOrder)
                THEN /\ Events[p + 2].ev = "which"
                     /\ Events[p + 2].arg[1] = CandidateOrder[Rank(Events[p].arg[1]) + 1]
                ELSE Events[p + 2].ev = "warning"
        /\ \A p, q \in Attempted(Events) :
             Events[p].arg[1] = Events[q].arg[1] => p = q
        /\ \A i \in Created(Events) :
             /\ i = Len(Events)
             /\ \A j \in 1..(Rank(Events[i].arg[1]) - 1) :
                  \E p \in 1..(i - 1) :
                      /\ Events[p].arg[1] = CandidateOrder[j]
                      /\ ~Events[p].ok
        /\ Created(Events) = {} =>
             \A j \in InstalledRanks :
                 \E p \in FailedAttempts(Events) : Events[p].arg[1] = CandidateOrder[j]

\* two installed candidates fail to start and a third one is created
C4_Witness ==
    /\ RanTerminalRunner
    /\ Cardinality(FailedAttempts(Events)) = 2
    /\ Created(Events) /= {}

----------------------------------------------------------------------------
(* C5 *)

\* C5: the terminals created never outnumber the APT actions confirmed with
\* Yes; one slot creates at most one terminal; a slot other than confirm_*
\* creates none; and the only processes a confirm_* slot tries to create are
\* terminal candidates.
C5_AtMostOneTerminalPerConfirmation ==
    /\ launched <= confirmed
    /\ Cardinality(TerminalsCreated(Events)) <= 1
    /\ ~AptAction => TerminalsCreated(Events) = {}
    /\ AptAction => \A i \in Attempted(Events) : Events[i].arg[1] \in TerminalBinaries

\* two confirmed actions, each with a terminal created, the last one after a
\* failed attempt on a host with several terminals
C5_Witness ==
    /\ confirmed = 2
    /\ launched = 2
    /\ Cardinality(InstalledRanks) >= 3
    /\ FailedAttempts(Events) /= {}

----------------------------------------------------------------------------
(* C6 *)

\* C6: whenever a slot met a process creation that failed, no exception left
\* the slot and the launcher is still running.
C6_NoFailureEscapes ==
    FailedAttempts(Events) /= {} => (~last.escaped /\ running)

----------------------------------------------------------------------------
(* C7 *)

\* the tool the last slot needed is not installed
RequiredToolMissing ==
    \/ RanTerminalRunner /\ InstalledRanks = {}
    \/ /\ last.op \in {"open_sysd_manager", "open_resources", "open_warehouse",
                       "open_flatsweep"}
       /\ "flatpak" \notin installed
    \/ last.op = "open_hardinfo" /\ {"hardinfo2", "hardinfo"} \cap installed = {}
    \/ /\ last.op = "open_deb_dialog"
       /\ Events[1].ok
       /\ "deb-gview" \notin installed
    \/ RanPolkit /\ "pkexec" \notin installed
    \/ last.op = "lambda" /\ Events[1].arg[1] \notin installed

\* C7: whenever the tool a slot needs is not installed, the slot shows a
\* warning dialog and creates no process.
C7_MissingToolWarns ==
    RequiredToolMissing => (Warnings(Events) /= {} /\ Created(Events) = {})

----------------------------------------------------------------------------
(* C8 *)

\* what os.environ holds for a variable, as the argument vector must carry it
Verbatim(value) == IF value = Unset THEN "" ELSE value

DisplayEntries == {"DISPLAY=" \o Verbatim(v) : v \in DisplayValues}
XauthorityEntries == {"XAUTHORITY=" \o Verbatim(v) : v \in XauthorityValues}

\* C8: the argument vector of every dispatch of run_polkit_command holds
\* exactly one DISPLAY= entry and one XAUTHORITY= entry, each carrying the
\* value the environment holds at that dispatch, the empty string when the
\* variable is unset.
C8_EnvironmentVerbatim ==
    [][ (clicks' /= clicks /\ RanPolkit') =>
            /\ Attempted(Events)' = {1}
            /\ LET argv == last'.events[1].arg
               IN  /\ Cardinality({k \in DOMAIN argv : argv[k] \in DisplayEntries}) = 1
                   /\ Cardinality({k \in DOMAIN argv : argv[k] \in XauthorityEntries}) = 1
                   /\ \E k \in DOMAIN argv :
                        argv[k] = "DISPLAY=" \o Verbatim(environ["DISPLAY"])
                   /\ \E k \in DOMAIN argv :
                        argv[k] = "XAUTHORITY=" \o Verbatim(environ["XAUTHORITY"]) ]_vars

\* a second dispatch, with DISPLAY unset and XAUTHORITY set
C8_Witness ==
    /\ RanPolkit
    /\ clicks >= 2
    /\ environ["DISPLAY"] = Unset
    /\ environ["XAUTHORITY"] /= Unset
    /\ Events[1].ok
    /\ Events[1].arg[3] = "DISPLAY="
    /\ Events[1].arg[4] = "XAUTHORITY=/run/user/1000/xauth"

----------------------------------------------------------------------------
(* C9 *)

\* C9: when pkexec cannot be started, run_polkit_command makes exactly two
\* calls, the failed creation and the console message: no dialog, no other
\* process, no second attempt; the slot returns and the launcher runs on.
C9_PkexecFailureOnlyLogged ==
    (RanPolkit /\ FailedAttempts(Events) /= {}) =>
        /\ Len(Events) = 2
        /\ Events[1].ev = "popen" /\ Events[1].arg[1] = "pkexec" /\ ~Events[1].ok
        /\ Events[2].ev = "print"
        /\ Warnings(Events) = {}
        /\ Questions(Events) = {}
        /\ Created(Events) = {}
        /\ Cardinality(Attempted(Events)) = 1
        /\ ~last.escaped
        /\ running

\* pkexec is not installed
C9_Witness ==
    /\ RanPolkit
    /\ "pkexec" \notin installed
    /\ FailedAttempts(Events) = {1}

----------------------------------------------------------------------------
(* C10 *)

\* C10: a call of the runner shows the warning if and only if it created no
\* terminal, and then exactly once and as its last call; so it does when
\* every installed candidate failed to start.
C10_WarningIffNoTerminal ==
    RanTerminalRunner =>
        /\ Warnings(Events) /= {} <=> TerminalsCreated(Events) = {}
        /\ Cardinality(Warnings(Events)) <= 1
        /\ \A w \in Warnings(Events) : w = Len(Events)

\* three candidates are installed and each of them fails to start
C10_Witness ==
    /\ RanTerminalRunner
    /\ Cardinality(InstalledRanks) = 3
    /\ Cardinality(FailedAttempts(Events)) = 3
    /\ Created(Events) = {}
    /\ Warnings(Events) /= {}

====
